---- MODULE Spec2Model ----
\* Model of reazonspeech/align.py: get_utterances and its helpers _slice,
\* _align and _add_space.
\*
\* Time is fixed point: one tick is 5 ms (200 ticks per second).  Every
\* caption time and every aligner offset is an even number of ticks (a
\* multiple of 10 ms), so that the halving in _add_space is exact, as it is
\* for the floats of the program.  Scores are in hundredths.
\* An optional value (Python None or a value) is the empty set or a singleton.
EXTENDS Integers, Sequences, FiniteSets, TLC

VARIABLES captions, strategy, speech2text, output_sample_rate,
          samplerate, bufferLen, utterances, pc, i, k, j,
          calls, aligned, recog

vars == <<captions, strategy, speech2text, output_sample_rate,
          samplerate, bufferLen, utterances, pc, i, k, j,
          calls, aligned, recog>>

inputs == <<captions, strategy, speech2text, output_sample_rate>>

----------------------------------------------------------------------------
\* Program constants, in ticks of 5 ms.

\* _MARGIN = 25 seconds
MARGIN == 5000

\* _END_PADDING = 0.45 seconds
END_PADDING == 90

\* _START_MINUS_PADDING = 0.3 seconds
START_MINUS_PADDING == 60

\* the literal 3 (seconds) of _add_space
MAX_BLANK == 600

----------------------------------------------------------------------------
\* Bounds of the model.

\* longest caption list
MaxCaptions == 3

\* length of the audio file, in ticks (50 s)
AudioTicks == 10000

\* native rate of the aligner, int(ctc_segmentation.fs)
AlignerRate == 16000

\* the rate asked for with output_sample_rate, when one is given
OutputRate == 22050

----------------------------------------------------------------------------
\* Helpers.

None == {}

Some(v) == {v}

Get(o) == CHOOSE v \in o : TRUE

Max(a, b) == IF a >= b THEN a ELSE b

Min(a, b) == IF a <= b THEN a ELSE b

\* Python int() of the float t * samplerate, t in ticks: truncation toward 0.
ToIndex(t, rate) ==
    LET x == t * rate
    IN IF x >= 0 THEN x \div 200 ELSE -((-x) \div 200)

\* Python's normalisation of one bound of buffer[a:b] for a buffer of n items.
SliceBound(n, a) ==
    IF a < 0 THEN Max(a + n, 0) ELSE Min(a, n)

\* _slice: the part of the buffer that buffer[int(start*sr):int(end*sr)]
\* denotes, as the pair of its first index and the index after its last.
Slice(n, rate, start, end) ==
    LET lo == SliceBound(n, ToIndex(start, rate))
        hi == SliceBound(n, ToIndex(end, rate))
    IN <<lo, Max(lo, hi)>>

SliceLen(b) == b[2] - b[1]

\* load_audio(path, rate): only the length of the decoded buffer matters.
LoadAudioLen(rate) == ToIndex(AudioTicks, rate)

----------------------------------------------------------------------------
\* Text utilities of reazonspeech.text.

\* normalize: whitespace is dropped, script variants are folded.
NormChar(c) == IF c = "A" THEN "a" ELSE IF c = "B" THEN "b" ELSE c

RECURSIVE normalize(_)
normalize(t) ==
    IF t = <<>> THEN <<>>
    ELSE IF Head(t) = " " THEN normalize(Tail(t))
         ELSE <<NormChar(Head(t))>> \o normalize(Tail(t))

RECURSIVE EditDistance(_, _)
EditDistance(a, b) ==
    IF a = <<>> THEN Len(b)
    ELSE IF b = <<>> THEN Len(a)
    ELSE IF Head(a) = Head(b) THEN EditDistance(Tail(a), Tail(b))
    ELSE 1 + Min(EditDistance(Tail(a), Tail(b)),
                 Min(EditDistance(Tail(a), b), EditDistance(a, Tail(b))))

\* cer(reference, hypothesis): edit distance over reference length, on the
\* normalized reference; the quotient is kept as <<numerator, denominator>>.
cer(ref, hyp) ==
    <<EditDistance(normalize(ref), hyp), Len(normalize(ref))>>

----------------------------------------------------------------------------
\* Inputs.

\* The sentence captions the Sentence Builder can deliver: chronological and
\* non-overlapping.  The third one is the caption (30.0, 32.0).
CaptionPool ==
    << [text |-> <<"A", " ", "b">>, start_seconds |-> 0,    end_seconds |-> 400],
       [text |-> <<"b", "a">>,      start_seconds |-> 3000, end_seconds |-> 3600],
       [text |-> <<"h", "i">>,      start_seconds |-> 6000, end_seconds |-> 6400],
       [text |-> <<"a", " ", "B">>, start_seconds |-> 8000, end_seconds |-> 8400] >>

RECURSIVE SubSeqs(_)
SubSeqs(s) ==
    IF s = <<>> THEN {<<>>}
    ELSE LET rest == SubSeqs(Tail(s))
         IN rest \cup {<<Head(s)>> \o r : r \in rest}

CaptionLists == {c \in SubSeqs(CaptionPool) : Len(c) <= MaxCaptions}

\* Segments (d0, d1, score) the aligner can report for a window.
\* (400, 900, 90) is (2.0, 4.5, 0.9); (500, 500, 50) is empty and the last one
\* ends before it starts.
Segments ==
    { <<0, 400, 80>>, <<400, 900, 90>>, <<5200, 5800, 70>>,
      <<500, 500, 50>>, <<900, 400, 60>> }

LaterSegment == <<1000, 1200, 10>>

SegmentLists ==
    {<<>>} \cup {<<s>> : s \in Segments} \cup {<<<<400, 900, 90>>, LaterSegment>>}

\* Exceptions the aligner can raise.
Exceptions == {"IndexError", "ValueError", "RuntimeError", "TypeError"}

AlignerOutcomes ==
    {[raises |-> Some(e), segments |-> <<>>] : e \in Exceptions}
    \cup {[raises |-> None, segments |-> s] : s \in SegmentLists}

\* Ranked hypotheses the recognizer can return: (text, rank) pairs.
RecognizerOutputs ==
    { << <<<<"a", "b">>, 1>>, <<<<"b">>, 2>> >>,
      << <<<<"h", "a">>, 1>>, <<<<"a", "b">>, 2>> >> }

----------------------------------------------------------------------------
\* _align

CaughtNoRuntime == {"IndexError", "ValueError"}

\* the exceptions of the except clause
Caught == {"IndexError", "ValueError", "RuntimeError"}

WindowStart(caption) == Max(caption.start_seconds - MARGIN, 0)

LastSegment(segments) == segments[Len(segments)]

FirstSegment(segments) == segments[1]

AlignedStart(t0, d0) == t0 + d0 - START_MINUS_PADDING

AlignedEndMinus(t0, d1) == t0 + d1 - END_PADDING

AlignedEnd(t0, d1) == t0 + d1 + END_PADDING

\* The Utterance that _align builds; caption is the position of its caption
\* in the caption list (a history field, not a field of the program).
NewUtterance(rate, c, idx, t0, seg) ==
    [ buffer        |-> None,
      samplerate    |-> rate,
      duration      |-> None,
      start_seconds |-> AlignedStart(t0, seg[1]),
      end_seconds   |-> AlignedEnd(t0, seg[2]),
      text          |-> c.text,
      ctc           |-> seg[3],
      asr           |-> None,
      cer           |-> None,
      caption       |-> idx ]

\* The call of the aligner that _align makes for a caption.
AlignerCall(n, rate, c, idx, out) ==
    [ caption |-> idx,
      source  |-> Slice(n, rate, WindowStart(c), c.end_seconds),
      text    |-> normalize(c.text),
      outcome |-> out ]

\* The result of _align: an exception that escapes, None, or an Utterance.
Align(rate, c, idx, out) ==
    IF out.raises # None
    THEN IF Get(out.raises) \in Caught
         THEN [raised |-> FALSE, utt |-> None]
         ELSE [raised |-> TRUE, utt |-> None]
    ELSE IF out.segments # <<>>
         THEN [raised |-> FALSE,
               utt |-> Some(NewUtterance(rate, c, idx, WindowStart(c),
                                         FirstSegment(out.segments)))]
         ELSE [raised |-> FALSE, utt |-> None]

----------------------------------------------------------------------------
\* _add_space

BlankUnbounded(u0, u1) ==
    Max((u1.start_seconds - u0.end_seconds) \div 2, 0)

BlankSigned(u0, u1) ==
    Min((u1.start_seconds - u0.end_seconds) \div 2, MAX_BLANK)

BlankFromStart(u0, u1) ==
    Max(Min((u1.start_seconds - u0.start_seconds) \div 2, MAX_BLANK), 0)

\* blank = max(min((u1.start_seconds - u0.end_seconds) / 2, 3), 0)
Blank(u0, u1) ==
    Max(Min((u1.start_seconds - u0.end_seconds) \div 2, MAX_BLANK), 0)

\* One iteration of the loop of _add_space, on the pair (utts[p], utts[p+1]).
AddSpacePair(utts, p) ==
    LET blank == Blank(utts[p], utts[p + 1])
    IN [utts EXCEPT ![p].end_seconds = @ + blank,
                    ![p + 1].start_seconds = @ - blank]

----------------------------------------------------------------------------
\* get_utterances

RunsAddSpaceAlways(s) == TRUE

RunsAddSpace(s) == s = "lax"

Prepend(utts, u) == <<u>> \o utts

\* utterances.append(utt)
AppendUtterance(utts, u) == Append(utts, u)

SecondHypothesis(nbest) == nbest[2][1]

TopHypothesis(nbest) == nbest[1][1]

Init ==
    /\ captions \in CaptionLists
    /\ strategy \in {"optim", "lax"}
    /\ speech2text \in BOOLEAN
    /\ output_sample_rate \in {None, Some(OutputRate)}
    /\ samplerate = AlignerRate
    /\ bufferLen = LoadAudioLen(AlignerRate)
    /\ utterances = <<>>
    /\ pc = "align"
    /\ i = 1
    /\ k = 1
    /\ j = 1
    /\ calls = <<>>
    /\ aligned = <<>>
    /\ recog = <<>>

\* One iteration of the loop over the captions: _align and the append.
AlignStep(out) ==
    /\ pc = "align"
    /\ i <= Len(captions)
    /\ LET c == captions[i]
           r == Align(samplerate, c, i, out)
       IN /\ calls' = Append(calls, AlignerCall(bufferLen, samplerate, c, i, out))
          /\ IF r.raised
             THEN /\ pc' = "raised"
                  /\ UNCHANGED <<utterances, i>>
             ELSE /\ pc' = "align"
                  /\ i' = i + 1
                  /\ utterances' = IF r.utt # None
                                   THEN AppendUtterance(utterances, Get(r.utt))
                                   ELSE utterances
    /\ UNCHANGED <<inputs, samplerate, bufferLen, k, j, aligned, recog>>

\* The loop over the captions ends; the strategy is tested.
AlignDone ==
    /\ pc = "align"
    /\ i > Len(captions)
    /\ aligned' = utterances
    /\ pc' = IF RunsAddSpace(strategy) THEN "add_space" ELSE "reload"
    /\ UNCHANGED <<inputs, samplerate, bufferLen, utterances, i, k, j, calls, recog>>

\* One iteration of the loop of _add_space.
AddSpaceStep ==
    /\ pc = "add_space"
    /\ k < Len(utterances)
    /\ utterances' = AddSpacePair(utterances, k)
    /\ k' = k + 1
    /\ UNCHANGED <<inputs, samplerate, bufferLen, pc, i, j, calls, aligned, recog>>

AddSpaceDone ==
    /\ pc = "add_space"
    /\ k >= Len(utterances)
    /\ pc' = "reload"
    /\ UNCHANGED <<inputs, samplerate, bufferLen, utterances, i, k, j, calls, aligned, recog>>

\* The audio is decoded again when an output rate is given.
Reload ==
    /\ pc = "reload"
    /\ IF output_sample_rate # None
       THEN /\ bufferLen' = LoadAudioLen(Get(output_sample_rate))
            /\ samplerate' = Get(output_sample_rate)
       ELSE UNCHANGED <<bufferLen, samplerate>>
    /\ pc' = "materialize"
    /\ UNCHANGED <<inputs, utterances, i, k, j, calls, aligned, recog>>

\* The fields the second loop fills for one utterance, nbest being what the
\* recognizer returned for its buffer (None when there is no recognizer).
Materialize(u, n, rate, nbest) ==
    LET buf == Slice(n, rate, u.start_seconds, u.end_seconds)
        m == [u EXCEPT !.buffer = Some(buf),
                       !.duration = Some(u.end_seconds - u.start_seconds),
                       !.samplerate = rate]
    IN IF nbest # None
       THEN [m EXCEPT !.asr = Some(TopHypothesis(Get(nbest))),
                      !.cer = Some(cer(u.text, TopHypothesis(Get(nbest))))]
       ELSE m

\* One iteration of the second loop, the recognizer returning nbest.
MaterializeStep(nbest) ==
    /\ pc = "materialize"
    /\ j <= Len(utterances)
    /\ (nbest # None) <=> speech2text
    /\ utterances' = [utterances EXCEPT
                        ![j] = Materialize(utterances[j], bufferLen, samplerate, nbest)]
    /\ recog' = IF nbest # None
                THEN Append(recog, [buffer |-> utterances'[j].buffer,
                                    nbest |-> Get(nbest)])
                ELSE recog
    /\ j' = j + 1
    /\ UNCHANGED <<inputs, samplerate, bufferLen, pc, i, k, calls, aligned>>

\* The recognizer raises: nothing catches it.
RecognizerRaises ==
    /\ pc = "materialize"
    /\ j <= Len(utterances)
    /\ speech2text
    /\ pc' = "raised"
    /\ UNCHANGED <<inputs, samplerate, bufferLen, utterances, i, k, j, calls, aligned, recog>>

Return ==
    /\ pc = "materialize"
    /\ j > Len(utterances)
    /\ pc' = "done"
    /\ UNCHANGED <<inputs, samplerate, bufferLen, utterances, i, k, j, calls, aligned, recog>>

Next ==
    \/ \E out \in AlignerOutcomes : AlignStep(out)
    \/ AlignDone
    \/ AddSpaceStep
    \/ AddSpaceDone
    \/ Reload
    \/ \E nbest \in {None} \cup {Some(h) : h \in RecognizerOutputs} : MaterializeStep(nbest)
    \/ RecognizerRaises
    \/ Return

Spec == Init /\ [][Next]_vars

----------------------------------------------------------------------------
\* Properties.

Returned == pc = "done"

AfterAlign == pc \in {"add_space", "reload", "materialize", "done"}

AfterAddSpace == pc \in {"reload", "materialize", "done"}

Indices(s) == 1..Len(s)

\* The utterances as the alignment loop made them: the list itself until the
\* loop ends, the copy taken at its end afterwards.
AsAligned == IF aligned # <<>> THEN aligned ELSE utterances

\* The first segment the aligner reported for the caption of utterance u.
SegmentOf(u) == calls[u.caption].outcome.segments[1]

\* C1 as stated: every returned utterance has start_seconds < end_seconds,
\* whatever first segment the aligner reported.
C1_StartBeforeEndAnySegment ==
    Returned =>
        \A n \in Indices(utterances) :
            utterances[n].start_seconds < utterances[n].end_seconds

\* C1 amended: every returned utterance whose first segment (d0, d1, score)
\* has d0 <= d1 has start_seconds < end_seconds, under both strategies.
C1_StartBeforeEnd ==
    Returned =>
        \A n \in Indices(utterances) :
            SegmentOf(utterances[n])[1] <= SegmentOf(utterances[n])[2]
                => utterances[n].start_seconds < utterances[n].end_seconds

\* A lax run returned an utterance made of an empty segment (d0 = d1) whose
\* start was moved by the reconciliation with the utterance before it.
C1_Witness ==
    /\ Returned
    /\ strategy = "lax"
    /\ \E n \in Indices(utterances) :
          /\ n > 1
          /\ SegmentOf(utterances[n])[1] = SegmentOf(utterances[n])[2]
          /\ utterances[n].start_seconds < aligned[n].start_seconds

\* C2: the utterance list is an order-preserving subsequence of the captions:
\* the captions of its utterances are strictly increasing positions of the
\* caption list, each utterance carrying the text of its caption, and after
\* the alignment loop the list keeps its elements and their order.
C2_OrderPreserved ==
    /\ \A n \in Indices(utterances) :
          /\ utterances[n].caption \in Indices(captions)
          /\ utterances[n].text = captions[utterances[n].caption].text
    /\ \A m, n \in Indices(utterances) :
          m < n => utterances[m].caption < utterances[n].caption
    /\ AfterAlign =>
          /\ Len(utterances) = Len(aligned)
          /\ \A n \in Indices(utterances) :
                utterances[n].caption = aligned[n].caption

\* A lax run with a recognizer returned two utterances, a caption between
\* theirs having been skipped.
C2_Witness ==
    /\ Returned
    /\ strategy = "lax"
    /\ speech2text
    /\ Len(utterances) = 2
    /\ utterances[2].caption > utterances[1].caption + 1

Skips(out) ==
    \/ out.raises # None /\ Get(out.raises) \in {"IndexError", "ValueError", "RuntimeError"}
    \/ out.raises = None /\ out.segments = <<>>

\* C3: a call of the aligner that raises IndexError, ValueError or
\* RuntimeError, or that reports no segment, appends nothing, leaves the
\* utterance list as it was, raises nothing to the caller and lets the loop go
\* on to the next caption; the aligner is called once per caption, in order,
\* and for every caption when the loop ends.
C3_SkipAndContinue ==
    /\ [](\A n \in Indices(calls) : calls[n].caption = n)
    /\ [](AfterAlign => Len(calls) = Len(captions))
    /\ [][(Len(calls') = Len(calls) + 1 /\ Skips(calls'[Len(calls')].outcome))
            => /\ utterances' = utterances
               /\ pc' = "align"
               /\ i' = i + 1]_vars

\* The aligner raised for the first caption and reported no segment for the
\* second, and an utterance was still made of the third.
C3_Witness ==
    /\ Returned
    /\ Len(calls) = 3
    /\ calls[1].outcome.raises = {"RuntimeError"}
    /\ calls[2].outcome.raises = {} /\ calls[2].outcome.segments = <<>>
    /\ Len(utterances) = 1
    /\ utterances[1].caption = 3

\* C4: the aligner is called on the samples of [t0, e), t0 = max(s - 25, 0),
\* with the normalized text, and a non-empty segment list whose first element
\* is (d0, d1, score) gives the utterance start t0 + d0 - 0.3, end
\* t0 + d1 + 0.45, ctc score, the caption's own text and no buffer; caption
\* (30.0, 32.0) with first segment (2.0, 4.5, 0.9) gives window [5.0, 32.0),
\* start 6.7, end 9.95, ctc 0.9.  (80 samples per tick at 16000 Hz.)
C4_WindowAndFirstSegment ==
    /\ \A n \in Indices(calls) :
          LET c == captions[calls[n].caption]
              t0 == IF c.start_seconds - 5000 > 0 THEN c.start_seconds - 5000 ELSE 0
          IN /\ calls[n].source = <<t0 * 80, c.end_seconds * 80>>
             /\ (c.start_seconds = 6000 /\ c.end_seconds = 6400)
                    => calls[n].source = <<5 * 16000, 32 * 16000>>
    /\ \A n \in Indices(AsAligned) :
          LET u == AsAligned[n]
              c == captions[u.caption]
              t0 == IF c.start_seconds - 5000 > 0 THEN c.start_seconds - 5000 ELSE 0
              seg == calls[u.caption].outcome.segments[1]
          IN /\ u.start_seconds = t0 + seg[1] - 60
             /\ u.end_seconds = t0 + seg[2] + 90
             /\ u.ctc = seg[3]
             /\ u.text = c.text
             /\ u.buffer = {}
             /\ (c.start_seconds = 6000 /\ c.end_seconds = 6400 /\ seg = <<400, 900, 90>>)
                    => (u.start_seconds = 1340 /\ u.end_seconds = 1990 /\ u.ctc = 90)

\* Caption (30.0, 32.0) was aligned with segments (2.0, 4.5, 0.9) and a later
\* one, and a caption whose text normalization changes was aligned too.
C4_Witness ==
    /\ AfterAlign
    /\ \E n \in Indices(aligned) :
          /\ captions[aligned[n].caption].start_seconds = 6000
          /\ Len(calls[aligned[n].caption].outcome.segments) = 2
          /\ aligned[n].start_seconds = 1340
    /\ \E n \in Indices(aligned) :
          calls[aligned[n].caption].text # aligned[n].text

\* The gap of the pair (p, p + 1) before reconciliation.
GapBefore(p) == aligned[p + 1].start_seconds - aligned[p].end_seconds

\* min(max(g / 2, 0), 3 s)
Moved(g) ==
    IF g < 0 THEN 0 ELSE IF g >= 1200 THEN 600 ELSE g \div 2

\* C5: under 'lax', for every adjacent pair with gap g before reconciliation,
\* afterwards the end of the left utterance is m later and the start of the
\* right one m earlier, m = min(max(g/2, 0), 3), the new gap being g - 2m;
\* an overlapping pair keeps both boundaries.
C5_LaxPairs ==
    (strategy = "lax" /\ AfterAddSpace) =>
        \A p \in 1..(Len(utterances) - 1) :
            LET g == GapBefore(p)
                m == Moved(g)
            IN /\ utterances[p].end_seconds = aligned[p].end_seconds + m
               /\ utterances[p + 1].start_seconds = aligned[p + 1].start_seconds - m
               /\ utterances[p + 1].start_seconds - utterances[p].end_seconds = g - 2 * m
               /\ g < 0 => /\ utterances[p].end_seconds = aligned[p].end_seconds
                           /\ utterances[p + 1].start_seconds = aligned[p + 1].start_seconds

\* Three utterances were reconciled, the first gap being shorter than 6 s and
\* the second longer.
C5_Witness ==
    /\ strategy = "lax"
    /\ Returned
    /\ Len(utterances) = 3
    /\ GapBefore(1) > 0 /\ GapBefore(1) < 1200
    /\ GapBefore(2) > 1200

\* Two utterances that overlapped were reconciled.
C5_WitnessOverlap ==
    /\ strategy = "lax"
    /\ Returned
    /\ Len(utterances) >= 2
    /\ GapBefore(1) < 0

\* The boundaries that applying every pair's blank at once, each computed on
\* the list o as it was before reconciliation, gives utterance n.
SimultaneousStart(o, n) ==
    IF n > 1 THEN o[n].start_seconds - Blank(o[n - 1], o[n]) ELSE o[n].start_seconds

SimultaneousEnd(o, n) ==
    IF n < Len(o) THEN o[n].end_seconds + Blank(o[n], o[n + 1]) ELSE o[n].end_seconds

\* C9: the left-to-right pass of 'lax', mutating in place, ends with the same
\* start_seconds and end_seconds for every utterance as the simultaneous
\* application of the blanks computed on the boundaries before reconciliation.
C9_SequentialIsSimultaneous ==
    (strategy = "lax" /\ AfterAddSpace) =>
        \A n \in Indices(utterances) :
            /\ utterances[n].start_seconds = SimultaneousStart(aligned, n)
            /\ utterances[n].end_seconds = SimultaneousEnd(aligned, n)

\* Three utterances were reconciled, the middle one moved at both ends.
C9_Witness ==
    /\ strategy = "lax"
    /\ AfterAddSpace
    /\ Len(utterances) = 3
    /\ utterances[2].start_seconds < aligned[2].start_seconds
    /\ utterances[2].end_seconds > aligned[2].end_seconds

\* C8: under 'optim' the returned utterances have the start_seconds and
\* end_seconds the alignment step computed.
C8_OptimKeepsBoundaries ==
    (strategy = "optim" /\ AfterAlign) =>
        /\ Len(utterances) = Len(aligned)
        /\ \A n \in Indices(utterances) :
              /\ utterances[n].start_seconds = aligned[n].start_seconds
              /\ utterances[n].end_seconds = aligned[n].end_seconds

\* An 'optim' run returned two utterances with silence between them.
C8_Witness ==
    /\ strategy = "optim"
    /\ Returned
    /\ Len(utterances) >= 2
    /\ GapBefore(1) > 0

\* C10: under 'lax', during and after reconciliation, no start_seconds has
\* increased and no end_seconds has decreased, neither has moved by more than
\* 3 s, the first start_seconds and the last end_seconds are as before, a pair
\* that did not overlap before does not overlap, and until materialization no
\* other field has changed.
C10_LaxOnlyGrows ==
    (strategy = "lax" /\ AfterAlign) =>
        /\ Len(utterances) = Len(aligned)
        /\ \A n \in Indices(utterances) :
              /\ utterances[n].start_seconds <= aligned[n].start_seconds
              /\ utterances[n].end_seconds >= aligned[n].end_seconds
              /\ aligned[n].start_seconds - utterances[n].start_seconds <= 600
              /\ utterances[n].end_seconds - aligned[n].end_seconds <= 600
              /\ pc \in {"add_space", "reload"} =>
                    [utterances[n] EXCEPT !.start_seconds = aligned[n].start_seconds,
                                          !.end_seconds = aligned[n].end_seconds]
                        = aligned[n]
        /\ Len(utterances) > 0 =>
              /\ utterances[1].start_seconds = aligned[1].start_seconds
              /\ utterances[Len(utterances)].end_seconds
                    = aligned[Len(aligned)].end_seconds
        /\ \A p \in 1..(Len(utterances) - 1) :
              GapBefore(p) >= 0 =>
                  utterances[p + 1].start_seconds - utterances[p].end_seconds >= 0

\* The reconciliation of three utterances has ended, one pair overlapping
\* before it and the other pair more than 6 s apart.
C10_Witness ==
    /\ strategy = "lax"
    /\ pc = "reload"
    /\ Len(utterances) = 3
    /\ \E p, q \in 1..2 : GapBefore(p) < 0 /\ GapBefore(q) > 1200

\* C6: after materialization the buffer of every returned utterance is as
\* long as duration * samplerate, within one sample.
C6_BufferLength ==
    Returned =>
        \A n \in Indices(utterances) :
            LET u == utterances[n]
                len == SliceLen(Get(u.buffer))
                want == Get(u.duration) * u.samplerate
            IN /\ len * 200 - want <= 200
               /\ want - len * 200 <= 200

C7_WitnessNoRecognizer ==
    /\ Returned
    /\ ~speech2text
    /\ Len(utterances) >= 2

====
